---- MODULE Spec2Model ----
(***************************************************************************)
(* The notepad command interpreter of adamlacasse/notepad.                 *)
(*                                                                         *)
(* notepad(inputCommands) of src/unnamed/part_000 walks the command list   *)
(* with forEach; one step of the model is one call of the forEach          *)
(* callback.  The state is the closure state of notepad: resultsArray,     *)
(* cursor and selection.  The variable tuple is the command the callback   *)
(* was last called with, the empty tuple before the first call.            *)
(*                                                                         *)
(* Strings are sequences of characters.  JavaScript numbers are integers   *)
(* plus NaN; an omitted tuple element is undefined.                        *)
(*                                                                         *)
(* notepad(inputCommands) of src/index.js is the earlier interpreter, with *)
(* no SELECT.  Its closure state, resultsArray and cursor, is the record   *)
(* legacy, and its definitions carry the prefix Legacy.  The variables     *)
(* inputCommands and index are the list a call of notepad is given and the *)
(* number of its tuples that forEach has passed to the callback; they are  *)
(* used where a run is followed along one given list.                      *)
(***************************************************************************)
EXTENDS Integers, Sequences, FiniteSets, TLC

VARIABLES resultsArray, cursor, selection, tuple, legacy, inputCommands, index

vars == <<resultsArray, cursor, selection, tuple, legacy, inputCommands, index>>

(***************************************************************************)
(* Bounds of the model.                                                    *)
(***************************************************************************)
\* snapshots a run may push
MaxSnapshots == 3
\* characters a snapshot may hold
MaxLen == 3
\* the largest numeric argument of a command
MaxPos == 4

\* the texts an APPEND or INSERT is given
Texts == {<<>>, <<"a">>, <<"b">>, <<"a", "b">>}

\* the numbers a MOVE, BACKSPACE or SELECT is given
Args == {-1} \cup 0..MaxPos

(***************************************************************************)
(* JavaScript values and arithmetic.                                       *)
(***************************************************************************)
\* the number NaN, a value outside every range the model computes with
NaN == -1000

\* the value of a tuple element that the command does not give
undefined == -1001

\* the value of selection when nothing is selected
null == <<>>

ToNumber(v) == IF v = undefined THEN NaN ELSE v

\* a + b on numbers
Plus(a, b) ==
    IF ToNumber(a) = NaN \/ ToNumber(b) = NaN THEN NaN ELSE a + b

\* a - b on numbers
Minus(a, b) ==
    IF ToNumber(a) = NaN \/ ToNumber(b) = NaN THEN NaN ELSE a - b

\* a < b on numbers: false when either is NaN
Less(a, b) ==
    ToNumber(a) # NaN /\ ToNumber(b) # NaN /\ a < b

MathMax(a, b) ==
    IF ToNumber(a) = NaN \/ ToNumber(b) = NaN THEN NaN
    ELSE IF a >= b THEN a ELSE b

MathMin(a, b) ==
    IF ToNumber(a) = NaN \/ ToNumber(b) = NaN THEN NaN
    ELSE IF a <= b THEN a ELSE b

\* String.prototype.slice turns an index into an offset 0..len: NaN is 0, a
\* negative index counts from the end
SliceIndex(i, len) ==
    LET rel == IF ToNumber(i) = NaN THEN 0 ELSE i
    IN  IF rel < 0 THEN (IF len + rel > 0 THEN len + rel ELSE 0)
        ELSE (IF rel < len THEN rel ELSE len)

\* s.slice(from, to)
Slice(s, from, to) ==
    LET f == SliceIndex(from, Len(s))
        t == SliceIndex(to, Len(s))
    IN  IF f < t THEN SubSeq(s, f + 1, t) ELSE <<>>

\* s.slice(from)
SliceFrom(s, from) == Slice(s, from, Len(s))

(***************************************************************************)
(* The helpers of notepad.                                                 *)
(***************************************************************************)
\* clampPosition without its upper limit
clampPosition_NoUpperLimit(pos, textLength) == MathMax(0, pos)

clampPosition(pos, textLength) == MathMax(0, MathMin(pos, textLength))

\* resultsArray[resultsArray.length - 1] || ''
LastResult(results) ==
    IF Len(results) = 0 THEN <<>> ELSE results[Len(results)]

\* clearSelection() as notepad calls it, with newCursor left null: the
\* selection is dropped and the cursor is kept
clearSelection(cur) == [selection |-> null, cursor |-> cur]

(***************************************************************************)
(* The cases of the switch.  Each gives the closure state that the case    *)
(* leaves, from the state it finds and the elements of the tuple.          *)
(***************************************************************************)
\* the SELECT case leaving the cursor at the start of the selection
DoSelect_CursorAtStart(results, cur, sel, value, rightPos) ==
    LET lastResult == LastResult(results)
        textLength == Len(lastResult)
        leftClamped == clampPosition(value, textLength)
        rightClamped == clampPosition(rightPos, textLength)
    IN  IF leftClamped = rightClamped
        THEN [resultsArray |-> results,
              selection |-> null,
              cursor |-> leftClamped]
        ELSE [resultsArray |-> results,
              selection |-> <<leftClamped, rightClamped>>,
              cursor |-> leftClamped]

\* the SELECT case storing the clamped bounds the other way round
DoSelect_Swapped(results, cur, sel, value, rightPos) ==
    LET lastResult == LastResult(results)
        textLength == Len(lastResult)
        leftClamped == clampPosition(value, textLength)
        rightClamped == clampPosition(rightPos, textLength)
    IN  IF leftClamped = rightClamped
        THEN [resultsArray |-> results,
              selection |-> null,
              cursor |-> leftClamped]
        ELSE [resultsArray |-> results,
              selection |-> <<rightClamped, leftClamped>>,
              cursor |-> rightClamped]

DoSelect(results, cur, sel, value, rightPos) ==
    LET lastResult == LastResult(results)
        textLength == Len(lastResult)
        leftClamped == clampPosition(value, textLength)
        rightClamped == clampPosition(rightPos, textLength)
    IN  IF leftClamped = rightClamped
        THEN [resultsArray |-> results,
              selection |-> null,
              cursor |-> leftClamped]
        ELSE [resultsArray |-> results,
              selection |-> <<leftClamped, rightClamped>>,
              cursor |-> rightClamped]

\* the APPEND case without its selection branch: the text goes to the end
\* and the selection stays
DoAppend_IgnoresSelection(results, cur, sel, value) ==
    LET lastResult == LastResult(results)
    IN  [resultsArray |-> Append(results, lastResult \o value),
         selection |-> sel,
         cursor |-> Len(lastResult \o value)]

\* the APPEND case putting the text at the cursor when nothing is selected
DoAppend_AtCursor(results, cur, sel, value) ==
    LET lastResult == LastResult(results)
    IN  IF sel # null
        THEN LET newText == Slice(lastResult, 0, sel[1]) \o value
                                \o SliceFrom(lastResult, sel[2])
             IN  [resultsArray |-> Append(results, newText),
                  selection |-> null,
                  cursor |-> Plus(sel[1], Len(value))]
        ELSE LET newText == Slice(lastResult, 0, cur) \o value
                                \o SliceFrom(lastResult, cur)
             IN  [resultsArray |-> Append(results, newText),
                  selection |-> sel,
                  cursor |-> Plus(cur, Len(value))]

DoAppend(results, cur, sel, value) ==
    LET lastResult == LastResult(results)
    IN  IF sel # null
        THEN LET newText == Slice(lastResult, 0, sel[1]) \o value
                                \o SliceFrom(lastResult, sel[2])
             IN  [resultsArray |-> Append(results, newText),
                  selection |-> clearSelection(Plus(sel[1], Len(value))).selection,
                  cursor |-> clearSelection(Plus(sel[1], Len(value))).cursor]
        ELSE [resultsArray |-> Append(results, lastResult \o value),
              selection |-> sel,
              cursor |-> Len(lastResult \o value)]

\* the MOVE case pushing the unchanged text as a snapshot
DoMove_PushesSnapshot(results, cur, sel, value) ==
    LET lastResult == LastResult(results)
    IN  [resultsArray |-> Append(results, lastResult),
         selection |-> null,
         cursor |-> IF Less(Plus(cur, value), 0) THEN 0
                    ELSE IF Less(Len(lastResult), Plus(cur, value))
                         THEN Len(lastResult)
                         ELSE Plus(cur, value)]

\* the MOVE case without its call of clearSelection
DoMove_KeepsSelection(results, cur, sel, value) ==
    LET lastResult == LastResult(results)
    IN  [resultsArray |-> results,
         selection |-> sel,
         cursor |-> IF Less(Plus(cur, value), 0) THEN 0
                    ELSE IF Less(Len(lastResult), Plus(cur, value))
                         THEN Len(lastResult)
                         ELSE Plus(cur, value)]

\* the MOVE case without the clamp at 0
DoMove_NoLowerClamp(results, cur, sel, value) ==
    LET lastResult == LastResult(results)
    IN  [resultsArray |-> results,
         selection |-> null,
         cursor |-> IF Less(Len(lastResult), Plus(cur, value))
                    THEN Len(lastResult)
                    ELSE Plus(cur, value)]

DoMove(results, cur, sel, value) ==
    LET lastResult == LastResult(results)
        cleared == clearSelection(cur)
    IN  [resultsArray |-> results,
         selection |-> cleared.selection,
         cursor |-> IF Less(Plus(cleared.cursor, value), 0) THEN 0
                    ELSE IF Less(Len(lastResult), Plus(cleared.cursor, value))
                         THEN Len(lastResult)
                         ELSE Plus(cleared.cursor, value)]

\* the BACKSPACE case without its selection branch: count characters left
\* of the cursor go and the selection is dropped
DoBackspace_IgnoresSelection(results, cur, sel, value) ==
    LET lastResult == LastResult(results)
        deleteStart == MathMax(0, Minus(cur, value))
        newText == Slice(lastResult, 0, deleteStart)
                       \o SliceFrom(lastResult, cur)
    IN  [resultsArray |-> Append(results, newText),
         selection |-> null,
         cursor |-> deleteStart]

\* the BACKSPACE case writing its text over the last snapshot instead of
\* pushing a new one
DoBackspace_InPlace(results, cur, sel, value) ==
    LET lastResult == LastResult(results)
        kept == SubSeq(results, 1, Len(results) - 1)
    IN  IF sel # null
        THEN LET newText == Slice(lastResult, 0, sel[1])
                                \o SliceFrom(lastResult, sel[2])
             IN  [resultsArray |-> Append(kept, newText),
                  selection |-> null,
                  cursor |-> sel[1]]
        ELSE LET deleteStart == MathMax(0, Minus(cur, value))
                 newText == Slice(lastResult, 0, deleteStart)
                                \o SliceFrom(lastResult, cur)
             IN  [resultsArray |-> Append(kept, newText),
                  selection |-> sel,
                  cursor |-> deleteStart]

DoBackspace(results, cur, sel, value) ==
    LET lastResult == LastResult(results)
    IN  IF sel # null
        THEN LET newText == Slice(lastResult, 0, sel[1])
                                \o SliceFrom(lastResult, sel[2])
             IN  [resultsArray |-> Append(results, newText),
                  selection |-> clearSelection(sel[1]).selection,
                  cursor |-> clearSelection(sel[1]).cursor]
        ELSE LET deleteStart == MathMax(0, Minus(cur, value))
                 newText == Slice(lastResult, 0, deleteStart)
                                \o SliceFrom(lastResult, cur)
             IN  [resultsArray |-> Append(results, newText),
                  selection |-> sel,
                  cursor |-> deleteStart]

DoInsert(results, cur, sel, value) ==
    LET lastResult == LastResult(results)
    IN  IF sel # null
        THEN LET newText == Slice(lastResult, 0, sel[1]) \o value
                                \o SliceFrom(lastResult, sel[2])
             IN  [resultsArray |-> Append(results, newText),
                  selection |-> clearSelection(Plus(sel[1], Len(value))).selection,
                  cursor |-> clearSelection(Plus(sel[1], Len(value))).cursor]
        ELSE IF Len(results) = 0
             THEN [resultsArray |-> Append(results, value),
                   selection |-> sel,
                   cursor |-> Len(value)]
             ELSE LET newText == Slice(lastResult, 0, cur) \o value
                                     \o SliceFrom(lastResult, cur)
                  IN  [resultsArray |-> Append(results, newText),
                       selection |-> sel,
                       cursor |-> Plus(cur, Len(value))]

\* the guard skipping MOVE alone
Skipped_OnlyMove(results, command) ==
    command = "MOVE" /\ Len(results) = 0

\* the guard at the head of the callback: the command is skipped
Skipped(results, command) ==
    command \notin {"APPEND", "INSERT", "SELECT"} /\ Len(results) = 0

(***************************************************************************)
(* The cases of the switch of src/index.js.  Each gives the closure state  *)
(* that the case leaves.                                                   *)
(***************************************************************************)
LegacyDoAppend(results, cur, value) ==
    LET lastResult == LastResult(results)
    IN  [resultsArray |-> Append(results, lastResult \o value),
         cursor |-> Len(lastResult \o value)]

LegacyDoMove(results, cur, value) ==
    LET lastResult == LastResult(results)
    IN  [resultsArray |-> results,
         cursor |-> IF Less(Plus(cur, value), 0) THEN 0
                    ELSE IF Less(Len(lastResult) - 1, Plus(cur, value))
                         THEN Len(lastResult) - 1
                         ELSE Plus(cur, value)]

LegacyDoBackspace(results, cur, value) ==
    LET lastResult == LastResult(results)
        pushMe == Slice(lastResult, 0, Minus(cur, value))
                      \o Slice(lastResult, cur, Len(lastResult))
    IN  [resultsArray |-> Append(results, pushMe),
         cursor |-> Minus(cur, value)]

LegacyDoInsert(results, cur, value) ==
    LET lastResult == LastResult(results)
    IN  IF Len(results) = 0
        THEN [resultsArray |-> Append(results, value),
              cursor |-> Len(value)]
        ELSE [resultsArray |-> Append(results,
                  Slice(lastResult, 0, cur) \o value
                      \o Slice(lastResult, cur, Len(lastResult))),
              cursor |-> Plus(cur, Len(value))]

\* the guard at the head of the callback of src/index.js
LegacySkipped(results, command) ==
    command \notin {"APPEND", "INSERT"} /\ Len(results) = 0

(***************************************************************************)
(* The commands a run is given.                                            *)
(***************************************************************************)
\* the tuples of a command list: ["APPEND", text], ["INSERT", text],
\* ["MOVE", n], ["BACKSPACE", n], ["BACKSPACE"], ["SELECT", l, r]
TextCommands(name) == {<<name, v>> : v \in Texts}

MoveCommands == {<<"MOVE", v>> : v \in Args}

BackspaceCommands == {<<"BACKSPACE", v>> : v \in Args} \cup {<<"BACKSPACE">>}

SelectCommands == {<<"SELECT", l, r>> : l \in Args, r \in Args}

\* a command the switch has no case for
OtherCommands == {<<"UNDO">>}

\* const [command, value, rightPos] = tuple: an element the tuple does not
\* have is undefined
Command(t) == IF Len(t) >= 1 THEN t[1] ELSE ""

Value(t) == IF Len(t) >= 2 THEN t[2] ELSE undefined

RightPos(t) == IF Len(t) >= 3 THEN t[3] ELSE undefined

\* the command list at the head of both sources
queries ==
    << <<"APPEND", <<"H", "i">>>>,
       <<"APPEND", <<" ", "t", "h", "e", "r", "e", "!">>>>,
       <<"MOVE", -600>>,
       <<"MOVE", 6>>,
       <<"BACKSPACE", 3>>,
       <<"INSERT", <<"S", "q", "u", "a">>>> >>

\* the lists that hold the tuples of queries in some order
QueriesReordered ==
    {[i \in 1..Len(queries) |-> queries[p[i]]] :
        p \in Permutations(1..Len(queries))}

(***************************************************************************)
(* The forEach callbacks as functions of the closure state and the tuple.  *)
(***************************************************************************)
Callback(results, cur, sel, t) ==
    IF Skipped(results, Command(t))
    THEN [resultsArray |-> results, selection |-> sel, cursor |-> cur]
    ELSE CASE Command(t) = "SELECT" ->
                  DoSelect(results, cur, sel, Value(t), RightPos(t))
           [] Command(t) = "APPEND" -> DoAppend(results, cur, sel, Value(t))
           [] Command(t) = "MOVE" -> DoMove(results, cur, sel, Value(t))
           [] Command(t) = "BACKSPACE" -> DoBackspace(results, cur, sel, Value(t))
           [] Command(t) = "INSERT" -> DoInsert(results, cur, sel, Value(t))
           [] OTHER -> [resultsArray |-> results, selection |-> sel, cursor |-> cur]

LegacyCallback(results, cur, t) ==
    IF LegacySkipped(results, Command(t))
    THEN [resultsArray |-> results, cursor |-> cur]
    ELSE CASE Command(t) = "APPEND" -> LegacyDoAppend(results, cur, Value(t))
           [] Command(t) = "MOVE" -> LegacyDoMove(results, cur, Value(t))
           [] Command(t) = "BACKSPACE" -> LegacyDoBackspace(results, cur, Value(t))
           [] Command(t) = "INSERT" -> LegacyDoInsert(results, cur, Value(t))
           [] OTHER -> [resultsArray |-> results, cursor |-> cur]

(***************************************************************************)
(* The state machine.                                                      *)
(***************************************************************************)
State == [resultsArray |-> resultsArray, cursor |-> cursor, selection |-> selection]

\* the model follows a run while its snapshots stay within the bounds
WithinBounds(next) ==
    /\ Len(next.resultsArray) <= MaxSnapshots
    /\ Len(LastResult(next.resultsArray)) <= MaxLen

\* the callback returns, having been called with t and leaving next
Return(t, next) ==
    /\ WithinBounds(next)
    /\ resultsArray' = next.resultsArray
    /\ cursor' = next.cursor
    /\ selection' = next.selection
    /\ tuple' = t
    /\ UNCHANGED <<legacy, inputCommands, index>>

Init ==
    /\ resultsArray = <<>>
    /\ cursor = 0
    /\ selection = null
    /\ tuple = <<>>
    /\ legacy = [resultsArray |-> <<>>, cursor |-> 0]
    /\ inputCommands = <<>>
    /\ index = 0

SKIP ==
    \E t \in MoveCommands \cup BackspaceCommands \cup OtherCommands :
        /\ Skipped(resultsArray, Command(t))
        /\ Return(t, State)

SELECT ==
    \E t \in SelectCommands :
        /\ ~Skipped(resultsArray, Command(t))
        /\ Return(t, DoSelect(resultsArray, cursor, selection, Value(t), RightPos(t)))

APPEND ==
    \E t \in TextCommands("APPEND") :
        /\ ~Skipped(resultsArray, Command(t))
        /\ Return(t, DoAppend(resultsArray, cursor, selection, Value(t)))

MOVE ==
    \E t \in MoveCommands :
        /\ ~Skipped(resultsArray, Command(t))
        /\ Return(t, DoMove(resultsArray, cursor, selection, Value(t)))

BACKSPACE ==
    \E t \in BackspaceCommands :
        /\ ~Skipped(resultsArray, Command(t))
        /\ Return(t, DoBackspace(resultsArray, cursor, selection, Value(t)))

INSERT ==
    \E t \in TextCommands("INSERT") :
        /\ ~Skipped(resultsArray, Command(t))
        /\ Return(t, DoInsert(resultsArray, cursor, selection, Value(t)))

DEFAULT ==
    \E t \in OtherCommands :
        /\ ~Skipped(resultsArray, Command(t))
        /\ Return(t, State)

Next ==
    \/ SKIP
    \/ SELECT
    \/ APPEND
    \/ MOVE
    \/ BACKSPACE
    \/ INSERT
    \/ DEFAULT

Spec == Init /\ [][Next]_vars

\* the same machine for command lists whose every SELECT has left <= right
SELECT_ORDERED ==
    \E t \in {c \in SelectCommands : Value(c) <= RightPos(c)} :
        /\ ~Skipped(resultsArray, Command(t))
        /\ Return(t, DoSelect(resultsArray, cursor, selection, Value(t), RightPos(t)))

NextOrdered ==
    \/ SKIP
    \/ SELECT_ORDERED
    \/ APPEND
    \/ MOVE
    \/ BACKSPACE
    \/ INSERT
    \/ DEFAULT

SpecOrdered == Init /\ [][NextOrdered]_vars

(***************************************************************************)
(* The two interpreters side by side: each step calls both callbacks with  *)
(* the same tuple, taken from the commands src/index.js knows, BACKSPACE   *)
(* with its count given.                                                   *)
(***************************************************************************)
\* both callbacks return, leaving next and legacyNext
ReturnBoth(next, legacyNext) ==
    /\ WithinBounds(next)
    /\ WithinBounds(legacyNext)
    /\ resultsArray' = next.resultsArray
    /\ cursor' = next.cursor
    /\ selection' = next.selection
    /\ legacy' = legacyNext
    /\ UNCHANGED <<inputCommands, index>>

BOTH_APPEND ==
    \E t \in TextCommands("APPEND") :
        /\ tuple' = t
        /\ ReturnBoth(Callback(resultsArray, cursor, selection, t),
                      LegacyCallback(legacy.resultsArray, legacy.cursor, t))

BOTH_MOVE ==
    \E t \in MoveCommands :
        /\ tuple' = t
        /\ ReturnBoth(Callback(resultsArray, cursor, selection, t),
                      LegacyCallback(legacy.resultsArray, legacy.cursor, t))

BOTH_BACKSPACE ==
    \E t \in BackspaceCommands \ {<<"BACKSPACE">>} :
        /\ tuple' = t
        /\ ReturnBoth(Callback(resultsArray, cursor, selection, t),
                      LegacyCallback(legacy.resultsArray, legacy.cursor, t))

BOTH_INSERT ==
    \E t \in TextCommands("INSERT") :
        /\ tuple' = t
        /\ ReturnBoth(Callback(resultsArray, cursor, selection, t),
                      LegacyCallback(legacy.resultsArray, legacy.cursor, t))

NextBoth ==
    \/ BOTH_APPEND
    \/ BOTH_MOVE
    \/ BOTH_BACKSPACE
    \/ BOTH_INSERT

SpecBoth == Init /\ [][NextBoth]_vars

(***************************************************************************)
(* Both interpreters called with one list: the tuples of queries in some   *)
(* order.  A step is forEach passing the next tuple to both callbacks.     *)
(***************************************************************************)
InitQueries ==
    /\ resultsArray = <<>>
    /\ cursor = 0
    /\ selection = null
    /\ tuple = <<>>
    /\ legacy = [resultsArray |-> <<>>, cursor |-> 0]
    /\ inputCommands \in QueriesReordered
    /\ index = 0

forEach ==
    /\ index < Len(inputCommands)
    /\ LET t == inputCommands[index + 1]
           next == Callback(resultsArray, cursor, selection, t)
       IN  /\ resultsArray' = next.resultsArray
           /\ cursor' = next.cursor
           /\ selection' = next.selection
           /\ legacy' = LegacyCallback(legacy.resultsArray, legacy.cursor, t)
           /\ tuple' = t
    /\ index' = index + 1
    /\ UNCHANGED inputCommands

NextQueries == forEach

SpecQueries == InitQueries /\ [][NextQueries]_vars

(***************************************************************************)
(* The vocabulary of the properties.  Positions are integers; a step is    *)
(* the callback called with tuple' in the state the unprimed variables     *)
(* give.                                                                   *)
(***************************************************************************)
\* the current buffer: the last snapshot, or "" if the log is empty
Current(log) == IF log = <<>> THEN <<>> ELSE log[Len(log)]

\* the snapshot before the last one
Previous(log) == log[Len(log) - 1]

Max(a, b) == IF a >= b THEN a ELSE b

\* x clamped into [lo, hi]
Clamp(x, lo, hi) == IF x < lo THEN lo ELSE IF x > hi THEN hi ELSE x

\* s[0:i], the first i characters of s
Take(s, i) == SubSeq(s, 1, Clamp(i, 0, Len(s)))

\* s[i:], s without its first i characters
Drop(s, i) == SubSeq(s, Clamp(i, 0, Len(s)) + 1, Len(s))

(***************************************************************************)
(* C1: after every command the cursor satisfies                            *)
(* 0 <= cursor <= length(current buffer).                                  *)
(***************************************************************************)
C1_CursorWithinBuffer ==
    /\ 0 <= cursor
    /\ cursor <= Len(Current(resultsArray))

(***************************************************************************)
(* C2: when every SELECT has left <= right, the selection is none or a     *)
(* pair (start, end) with 0 <= start < end <= length(current buffer).      *)
(***************************************************************************)
C2_SelectionWithinBuffer ==
    selection # null =>
        /\ 0 <= selection[1]
        /\ selection[1] < selection[2]
        /\ selection[2] <= Len(Current(resultsArray))

\* a selection strictly inside a buffer that earlier commands have edited
C2_Witness ==
    /\ Len(resultsArray) >= 2
    /\ Len(Current(resultsArray)) = 3
    /\ selection = <<1, 2>>

(***************************************************************************)
(* C3: with a selection (start, end) active, APPEND(text) and INSERT(text) *)
(* both push current[0:start] + text + current[end:], set the cursor to    *)
(* start + length(text) and clear the selection, whatever the cursor was.  *)
(***************************************************************************)
C3_ReplaceSelection ==
    [][(Command(tuple') \in {"APPEND", "INSERT"} /\ selection # null) =>
        LET current == Current(resultsArray)
        IN  /\ resultsArray' = Append(resultsArray,
                    Take(current, selection[1]) \o Value(tuple')
                        \o Drop(current, selection[2]))
            /\ cursor' = selection[1] + Len(Value(tuple'))
            /\ selection' = null]_vars

\* an INSERT of one character has replaced the middle character of a
\* three-character buffer: the length is kept, which no INSERT without a
\* selection does
C3_Witness ==
    /\ Command(tuple) = "INSERT"
    /\ Len(Value(tuple)) = 1
    /\ Len(resultsArray) >= 2
    /\ Len(Previous(resultsArray)) = 3
    /\ Value(tuple) # <<Previous(resultsArray)[2]>>
    /\ Current(resultsArray) =
           <<Previous(resultsArray)[1]>> \o Value(tuple) \o <<Previous(resultsArray)[3]>>
    /\ cursor = 2
    /\ selection = null

(***************************************************************************)
(* C4: BACKSPACE(count) with no selection and a non-empty log pushes       *)
(* current[0:deleteStart] + current[cursor:] with                          *)
(* deleteStart = max(0, cursor - count), and sets the cursor to            *)
(* deleteStart.                                                            *)
(***************************************************************************)
C4_BackspaceAtCursor ==
    [][(/\ Command(tuple') = "BACKSPACE"
        /\ Value(tuple') # undefined
        /\ selection = null
        /\ resultsArray # <<>>) =>
        LET current == Current(resultsArray)
            deleteStart == Max(0, cursor - Value(tuple'))
        IN  /\ resultsArray' = Append(resultsArray,
                    Take(current, deleteStart) \o Drop(current, cursor))
            /\ cursor' = deleteStart]_vars

(***************************************************************************)
(* C5: BACKSPACE with its count omitted and no selection, on a non-empty   *)
(* log, leaves the snapshot, cursor and selection that BACKSPACE(1)        *)
(* leaves.                                                                 *)
(***************************************************************************)
C5_OmittedCountIsOne ==
    [][(/\ Command(tuple') = "BACKSPACE"
        /\ Value(tuple') = undefined
        /\ selection = null
        /\ resultsArray # <<>>) =>
        LET one == DoBackspace(resultsArray, cursor, selection, 1)
        IN  /\ resultsArray' = one.resultsArray
            /\ cursor' = one.cursor
            /\ selection' = one.selection]_vars

(***************************************************************************)
(* C6: BACKSPACE with a selection (start, end) active pushes               *)
(* current[0:start] + current[end:], sets the cursor to start and clears   *)
(* the selection, for every count and for an omitted count.                *)
(***************************************************************************)
C6_BackspaceSelection ==
    [][(Command(tuple') = "BACKSPACE" /\ selection # null) =>
        LET current == Current(resultsArray)
        IN  /\ resultsArray' = Append(resultsArray,
                    Take(current, selection[1]) \o Drop(current, selection[2]))
            /\ cursor' = selection[1]
            /\ selection' = null]_vars

\* a BACKSPACE without a count has removed the middle character of a
\* three-character buffer and left the cursor where the character was
C6_Witness ==
    /\ Command(tuple) = "BACKSPACE"
    /\ Value(tuple) = undefined
    /\ Len(resultsArray) >= 2
    /\ Len(Previous(resultsArray)) = 3
    /\ Current(resultsArray) =
           <<Previous(resultsArray)[1], Previous(resultsArray)[3]>>
    /\ cursor = 1
    /\ selection = null

(***************************************************************************)
(* C7: INSERT(text) with no selection pushes text and sets the cursor to   *)
(* length(text) if the log is empty; otherwise it pushes                   *)
(* current[0:cursor] + text + current[cursor:] and sets the cursor to      *)
(* cursor + length(text).                                                  *)
(***************************************************************************)
C7_InsertAtCursor ==
    [][(Command(tuple') = "INSERT" /\ selection = null) =>
        LET current == Current(resultsArray)
        IN  IF resultsArray = <<>>
            THEN /\ resultsArray' = <<Value(tuple')>>
                 /\ cursor' = Len(Value(tuple'))
            ELSE /\ resultsArray' = Append(resultsArray,
                         Take(current, cursor) \o Value(tuple')
                             \o Drop(current, cursor))
                 /\ cursor' = cursor + Len(Value(tuple'))]_vars

(***************************************************************************)
(* C8: APPEND(text) with no selection pushes current + text, wherever the  *)
(* cursor is, and sets the cursor to the length of the new text.           *)
(***************************************************************************)
C8_AppendAtEnd ==
    [][(Command(tuple') = "APPEND" /\ selection = null) =>
        LET current == Current(resultsArray)
        IN  /\ resultsArray' = Append(resultsArray, current \o Value(tuple'))
            /\ cursor' = Len(current \o Value(tuple'))]_vars

\* an APPEND of two characters to a non-empty buffer: the buffer has grown
\* by the whole text, which no APPEND over a selection does
C8_Witness ==
    /\ Command(tuple) = "APPEND"
    /\ Len(Value(tuple)) = 2
    /\ Len(resultsArray) >= 2
    /\ Len(Previous(resultsArray)) > 0
    /\ Current(resultsArray) = Previous(resultsArray) \o Value(tuple)
    /\ cursor = Len(Current(resultsArray))

(***************************************************************************)
(* C9: MOVE(delta) on a non-empty log clears the selection and sets the    *)
(* cursor to cursor + delta clamped into [0, length(current)].             *)
(***************************************************************************)
C9_MoveClamps ==
    [][(Command(tuple') = "MOVE" /\ resultsArray # <<>>) =>
        /\ selection' = null
        /\ cursor' = Clamp(cursor + Value(tuple'), 0, Len(Current(resultsArray)))]_vars

(***************************************************************************)
(* C10: SELECT(left, right) with left <= right clamps each bound into      *)
(* [0, length(current)]; equal clamped bounds leave no selection and the   *)
(* cursor at that value, otherwise the selection is the clamped pair and   *)
(* the cursor is the clamped right bound.                                  *)
(***************************************************************************)
C10_SelectClamps ==
    [][(Command(tuple') = "SELECT" /\ Value(tuple') <= RightPos(tuple')) =>
        LET length == Len(Current(resultsArray))
            left == Clamp(Value(tuple'), 0, length)
            right == Clamp(RightPos(tuple'), 0, length)
        IN  IF left = right
            THEN selection' = null /\ cursor' = left
            ELSE selection' = <<left, right>> /\ cursor' = right]_vars

\* a SELECT with both bounds beyond a non-empty buffer: nothing is selected
\* and the cursor is at the end
C10_Witness ==
    /\ Command(tuple) = "SELECT"
    /\ Value(tuple) <= RightPos(tuple)
    /\ Len(Current(resultsArray)) > 0
    /\ Value(tuple) > Len(Current(resultsArray))
    /\ selection = null
    /\ cursor = Len(Current(resultsArray))

(***************************************************************************)
(* C11: while the log is empty, MOVE, BACKSPACE and SELECT leave the log   *)
(* empty, the cursor 0 and the selection none; only APPEND or INSERT       *)
(* produce the first snapshot.                                             *)
(***************************************************************************)
C11_EmptyLogNoOp ==
    [][resultsArray = <<>> =>
        /\ cursor = 0
        /\ selection = null
        /\ Command(tuple') \in {"MOVE", "BACKSPACE", "SELECT"} =>
              /\ resultsArray' = <<>>
              /\ cursor' = 0
              /\ selection' = null
        /\ resultsArray' # <<>> => Command(tuple') \in {"APPEND", "INSERT"}]_vars

\* a SELECT with distinct bounds has run on the empty log and selected
\* nothing
C11_Witness ==
    /\ resultsArray = <<>>
    /\ tuple = <<"SELECT", 1, MaxPos>>
    /\ cursor = 0
    /\ selection = null

(***************************************************************************)
(* C12: the log is append-only: APPEND, INSERT, and BACKSPACE on a         *)
(* non-empty log each add exactly one entry at the end and leave the       *)
(* entries before it as they were; every other step leaves the log as it   *)
(* was.                                                                    *)
(***************************************************************************)
C12_AppendOnlyLog ==
    [][IF \/ Command(tuple') \in {"APPEND", "INSERT"}
          \/ (Command(tuple') = "BACKSPACE" /\ resultsArray # <<>>)
       THEN /\ Len(resultsArray') = Len(resultsArray) + 1
            /\ SubSeq(resultsArray', 1, Len(resultsArray)) = resultsArray
       ELSE resultsArray' = resultsArray]_vars

\* three different snapshots, the last one pushed by a BACKSPACE
C12_Witness ==
    /\ Len(resultsArray) = 3
    /\ Command(tuple) = "BACKSPACE"
    /\ resultsArray[1] # resultsArray[2]
    /\ resultsArray[2] # resultsArray[3]
    /\ resultsArray[1] # resultsArray[3]

(***************************************************************************)
(* C13: SELECT and MOVE, MOVE(0) included, leave the snapshot log as it    *)
(* was.                                                                    *)
(***************************************************************************)
C13_SelectMoveKeepLog ==
    [][Command(tuple') \in {"SELECT", "MOVE"} =>
        resultsArray' = resultsArray]_vars

\* a MOVE(0) has run on a log of two snapshots
C13_Witness ==
    /\ tuple = <<"MOVE", 0>>
    /\ Len(resultsArray) = 2
    /\ resultsArray[1] # resultsArray[2]

(***************************************************************************)
(* C14: in every state with no selection, INSERT(s) followed at once by    *)
(* BACKSPACE(length(s)) ends with the buffer and the cursor that the state *)
(* had, for every text s.                                                  *)
(***************************************************************************)
C14_InsertBackspaceRoundTrip ==
    selection = null =>
        \A s \in Texts :
            LET inserted == DoInsert(resultsArray, cursor, selection, s)
                erased == DoBackspace(inserted.resultsArray, inserted.cursor,
                                      inserted.selection, Len(s))
            IN  /\ Current(erased.resultsArray) = Current(resultsArray)
                /\ erased.cursor = cursor

(***************************************************************************)
(* C15 as stated: after every SELECT(l, r), for all integers l and r, a    *)
(* selection that is stored is (smaller clamped bound, larger clamped      *)
(* bound), so 0 <= start <= end <= length(buffer).                         *)
(***************************************************************************)
C15_SelectionOrderedForAll ==
    [][(Command(tuple') = "SELECT" /\ selection' # null) =>
        /\ 0 <= selection'[1]
        /\ selection'[1] <= selection'[2]
        /\ selection'[2] <= Len(Current(resultsArray'))]_vars

(***************************************************************************)
(* C15 amended: after every SELECT(l, r) with l <= r, a selection that is  *)
(* stored is (clamped l, clamped r) and satisfies                          *)
(* 0 <= start <= end <= length(buffer); clamping does not invert the       *)
(* order.                                                                  *)
(***************************************************************************)
C15_SelectionOrderedWhenInputOrdered ==
    [][(/\ Command(tuple') = "SELECT"
        /\ Value(tuple') <= RightPos(tuple')
        /\ selection' # null) =>
        LET length == Len(Current(resultsArray'))
        IN  /\ selection' = <<Clamp(Value(tuple'), 0, length),
                              Clamp(RightPos(tuple'), 0, length)>>
            /\ 0 <= selection'[1]
            /\ selection'[1] <= selection'[2]
            /\ selection'[2] <= length]_vars

\* a SELECT with both bounds out of range has selected the whole of a
\* buffer of two or more characters
C15_Witness ==
    /\ Command(tuple) = "SELECT"
    /\ Value(tuple) < 0
    /\ RightPos(tuple) > Len(Current(resultsArray))
    /\ Len(Current(resultsArray)) >= 2
    /\ selection = <<0, Len(Current(resultsArray))>>

(***************************************************************************)
(* C16: called with the list queries, notepad of src/index.js and notepad  *)
(* of src/unnamed/part_000 both return                                     *)
(* ["Hi", "Hi there!", "Hi re!", "Hi Square!"].                            *)
(***************************************************************************)
C16_QueriesOutput ==
    (inputCommands = queries /\ index = Len(inputCommands)) =>
        LET output == << <<"H", "i">>,
                         <<"H", "i", " ", "t", "h", "e", "r", "e", "!">>,
                         <<"H", "i", " ", "r", "e", "!">>,
                         <<"H", "i", " ", "S", "q", "u", "a", "r", "e", "!">> >>
        IN  /\ resultsArray = output
            /\ legacy.resultsArray = output

\* forEach has passed every tuple of queries, in the order of queries, and
\* both interpreters have pushed four snapshots
C16_Witness ==
    /\ inputCommands = queries
    /\ index = Len(queries)
    /\ tuple = queries[Len(queries)]
    /\ Len(resultsArray) = 4
    /\ Len(legacy.resultsArray) = 4

(***************************************************************************)
(* C17: after APPEND, INSERT, BACKSPACE and MOVE nothing is selected, and  *)
(* after SELECT something is selected exactly if the clamped bounds        *)
(* differ.                                                                 *)
(***************************************************************************)
C17_SelectionOnlyAfterSelect ==
    [][Command(tuple') \in {"APPEND", "INSERT", "BACKSPACE", "MOVE", "SELECT"} =>
        LET length == Len(Current(resultsArray))
        IN  selection' # null <=>
                /\ Command(tuple') = "SELECT"
                /\ Clamp(Value(tuple'), 0, length) # Clamp(RightPos(tuple'), 0, length)]_vars

\* a SELECT with different bounds, both at or beyond the end of a non-empty
\* buffer, has left nothing selected
C17_Witness ==
    /\ Command(tuple) = "SELECT"
    /\ Value(tuple) < RightPos(tuple)
    /\ Value(tuple) >= Len(Current(resultsArray))
    /\ Len(Current(resultsArray)) >= 1
    /\ selection = null

(***************************************************************************)
(* C18: the snapshot a BACKSPACE pushes is the current buffer with one     *)
(* contiguous, possibly empty, range of characters removed, so it is never *)
(* longer than the current buffer.                                         *)
(***************************************************************************)
C18_BackspaceNeverLengthens ==
    [][(Command(tuple') = "BACKSPACE" /\ resultsArray # <<>>) =>
        LET current == Current(resultsArray)
        IN  /\ Len(Current(resultsArray')) <= Len(current)
            /\ \E i \in 0..Len(current) : \E j \in i..Len(current) :
                   Current(resultsArray') = Take(current, i) \o Drop(current, j)]_vars

(***************************************************************************)
(* C19: on command lists without SELECT, with every BACKSPACE count given, *)
(* the two interpreters stepped side by side have the same snapshot list   *)
(* and the same cursor after every command.                                *)
(***************************************************************************)
C19_LegacyEquivalent ==
    /\ legacy.resultsArray = resultsArray
    /\ legacy.cursor = cursor

(***************************************************************************)
(* C20: MOVE(0) leaves the cursor, the buffer and the snapshot log as they *)
(* were and leaves nothing selected.                                       *)
(***************************************************************************)
C20_MoveZeroNeutral ==
    [][tuple' = <<"MOVE", 0>> =>
        /\ cursor' = cursor
        /\ resultsArray' = resultsArray
        /\ selection' = null]_vars

====
